---- MODULE Spec2Model ----
(***************************************************************************)
(* prepare_training_data.py: the join-and-project pipeline of the          *)
(* ml-service.  One run of main() is modelled as a state machine whose     *)
(* steps are the stages of main(): load, validate / normalise keys,        *)
(* deduplicate + left join, derive targets, tenant filter, project by      *)
(* mode, write.                                                            *)
(*                                                                         *)
(* Data representation                                                     *)
(*   cell    <<>> is null (None / NaN), <<v>> is the non-null value v.     *)
(*           Scores are counted in tenths: <<10>> is 1.0, <<5>> is 0.5.    *)
(*   name    a column name is the sequence of the tokens whose             *)
(*           concatenation is the name: <<"amount", "_out">> is            *)
(*           "amount_out".  Only the token "_out" matters to the code.     *)
(*   table   [cols |-> set of names, rows |-> sequence of rows], a row     *)
(*           being a function from the table's names to cells.             *)
(*   path    the sequence of the segments of a relative path.              *)
(***************************************************************************)
EXTENDS Integers, Sequences, FiniteSets, TLC

(* ------------------------------ bounds -------------------------------- *)
\* the largest number of rows of an evaluation table drawn by Init
MaxRev == 2
\* the largest number of rows of an outcome table drawn by Init
MaxOut == 2

(* ------------------------------ cells --------------------------------- *)
NaN == <<>>
None == <<>>
Some(v) == <<v>>
notna(c) == c # NaN
Val(c) == c[1]

\* 1.0 and 0.5 in tenths
One == 10
Half == 5

(* --------------------------- column names ----------------------------- *)
tenantId == <<"tenantId">>
opportunityId == <<"opportunityId">>
outcome == <<"outcome">>
riskScore == <<"riskScore">>
amount == <<"amount">>
amount_out == <<"amount", "_out">>
categoryScores == <<"categoryScores">>
timestamp == <<"timestamp">>
evaluationId == <<"evaluationId">>
closeDate == <<"closeDate">>
recordedAt == <<"recordedAt">>
target_win == <<"target_win">>
target_risk == <<"target_risk">>
is_closed == <<"is_closed">>
risk_score_latest == <<"risk_score_latest">>
probability == <<"probability">>
days_to_close == <<"days_to_close">>
stage_encoded == <<"stage_encoded">>
industry_encoded == <<"industry_encoded">>
days_since_last_activity == <<"days_since_last_activity">>
activity_count_30d == <<"activity_count_30d">>
stakeholder_count == <<"stakeholder_count">>

\* c.endswith("_out")
EndsWithOut(c) == Len(c) > 0 /\ c[Len(c)] = "_out"

\* c + suffix, the renaming pandas applies to an overlapping column
WithSuffix(c, suffix) == IF suffix = "" THEN c ELSE Append(c, suffix)

JoinKeys == {tenantId, opportunityId}

(* ------------------------------ tables -------------------------------- *)
EmptyTable == [cols |-> {}, rows |-> <<>>]

\* DataFrame.empty: no rows or no columns
IsEmpty(t) == Len(t.rows) = 0 \/ t.cols = {}

\* the elements of s at the positions in keep, in order, from position i on
RECURSIVE SelectAt(_, _, _)
SelectAt(s, keep, i) ==
    IF i > Len(s) THEN <<>>
    ELSE (IF i \in keep THEN <<s[i]>> ELSE <<>>) \o SelectAt(s, keep, i + 1)

\* the values of the row under the columns of subset
KeyOf(row, subset) == [c \in subset |-> row[c]]

\* t[c] = v for a scalar v: every row gets the value (a new or replaced column)
AssignScalar(t, c, v) ==
    [cols |-> t.cols \cup {c},
     rows |-> [i \in 1..Len(t.rows) |->
                 [k \in t.cols \cup {c} |-> IF k = c THEN v ELSE t.rows[i][k]]]]

\* t[c] = arr for an array of the table's length
AssignArray(t, c, arr) ==
    [cols |-> t.cols \cup {c},
     rows |-> [i \in 1..Len(t.rows) |->
                 [k \in t.cols \cup {c} |-> IF k = c THEN arr[i] ELSE t.rows[i][k]]]]

\* t[c] = series: a Series is aligned on the index, positions it lacks get NaN
AssignSeries(t, c, ser) ==
    AssignArray(t, c, [i \in 1..Len(t.rows) |-> IF i <= Len(ser) THEN ser[i] ELSE NaN])

\* t.get(c, pd.Series(dtype=...)): the column, or an empty Series
GetOrEmpty(t, c) ==
    IF c \in t.cols THEN [i \in 1..Len(t.rows) |-> t.rows[i][c]] ELSE <<>>

\* t.drop(columns=dropped)
DropColumns(t, dropped) ==
    [cols |-> t.cols \ dropped,
     rows |-> [i \in 1..Len(t.rows) |-> [k \in t.cols \ dropped |-> t.rows[i][k]]]]

\* t[mask]: the rows at the positions in keep
FilterRows(t, keep) == [cols |-> t.cols, rows |-> SelectAt(t.rows, keep, 1)]

(* ----------------------- deduplicate and merge ------------------------- *)
\* faulty variant: no deduplication at all
DropDuplicatesNot(t, subset) == t

\* faulty variant: keep="last"
DropDuplicatesKeepLast(t, subset) ==
    FilterRows(t, {i \in 1..Len(t.rows) :
        \A j \in (i + 1)..Len(t.rows) : KeyOf(t.rows[j], subset) # KeyOf(t.rows[i], subset)})

\* t.drop_duplicates(subset=subset, keep="first")
DropDuplicates(t, subset) ==
    FilterRows(t, {i \in 1..Len(t.rows) :
        \A j \in 1..(i - 1) : KeyOf(t.rows[j], subset) # KeyOf(t.rows[i], subset)})

\* the non-key columns both sides have: pandas renames them with the suffixes
Overlap(left, right, on) == (left.cols \cap right.cols) \ on

\* the label a non-key column c of one side gets in the merged frame
MergedLabel(c, overlap, suffix) == IF c \in overlap THEN WithSuffix(c, suffix) ELSE c

\* the renamed labels are not unique: pandas raises MergeError, or (older
\* versions) builds a frame with a duplicated label on which the second
\* drop(columns=[c]) of the "_out" loop raises KeyError
SuffixClash(left, right, on, lsuffix, rsuffix) ==
    LET ov == Overlap(left, right, on)
        L == left.cols \ on
        R == right.cols \ on
    IN  \/ \E a, b \in L : a # b /\ MergedLabel(a, ov, lsuffix) = MergedLabel(b, ov, lsuffix)
        \/ \E a, b \in R : a # b /\ MergedLabel(a, ov, rsuffix) = MergedLabel(b, ov, rsuffix)
        \/ \E a \in L, b \in R : MergedLabel(a, ov, lsuffix) = MergedLabel(b, ov, rsuffix)

\* the columns of left.merge(right, on=on, suffixes=(lsuffix, rsuffix))
MergedCols(left, right, on, lsuffix, rsuffix) ==
    LET ov == Overlap(left, right, on)
    IN  on \cup {MergedLabel(c, ov, lsuffix) : c \in left.cols \ on}
           \cup {MergedLabel(c, ov, rsuffix) : c \in right.cols \ on}

\* one merged row: the left row l with the right row r (matched = FALSE: no
\* right row has the key, the right side's columns are NaN)
MergedRow(left, right, on, lsuffix, rsuffix, l, r, matched) ==
    LET ov == Overlap(left, right, on)
        L == left.cols \ on
        R == right.cols \ on
    IN  [k \in MergedCols(left, right, on, lsuffix, rsuffix) |->
            IF k \in on THEN l[k]
            ELSE IF \E a \in L : MergedLabel(a, ov, lsuffix) = k
                 THEN l[CHOOSE a \in L : MergedLabel(a, ov, lsuffix) = k]
            ELSE IF matched
                 THEN r[CHOOSE b \in R : MergedLabel(b, ov, rsuffix) = k]
            ELSE NaN]

\* faulty variant: the rows are matched on opportunityId alone
MatchesAnyTenant(right, on, l) ==
    SelectAt(right.rows,
             {j \in 1..Len(right.rows) : right.rows[j][opportunityId] = l[opportunityId]}, 1)

\* the right rows with the key of the left row l, in the right table's order
Matches(right, on, l) ==
    SelectAt(right.rows, {j \in 1..Len(right.rows) : KeyOf(right.rows[j], on) = KeyOf(l, on)}, 1)

\* the rows of a left join, in the left table's order: one row per matching
\* right row, or one row with NaN on the right when nothing matches
RECURSIVE LeftJoinRows(_, _, _, _, _, _)
LeftJoinRows(left, right, on, lsuffix, rsuffix, i) ==
    IF i > Len(left.rows) THEN <<>>
    ELSE LET l == left.rows[i]
             ms == Matches(right, on, l)
             here == IF Len(ms) = 0
                     THEN <<MergedRow(left, right, on, lsuffix, rsuffix, l, l, FALSE)>>
                     ELSE [j \in 1..Len(ms) |->
                             MergedRow(left, right, on, lsuffix, rsuffix, l, ms[j], TRUE)]
         IN  here \o LeftJoinRows(left, right, on, lsuffix, rsuffix, i + 1)

\* left.merge(right, on=on, how="left", suffixes=(lsuffix, rsuffix))
Merge(left, right, on, lsuffix, rsuffix) ==
    [cols |-> MergedCols(left, right, on, lsuffix, rsuffix),
     rows |-> LeftJoinRows(left, right, on, lsuffix, rsuffix, 1)]

\* for c in list(merged.columns): if c.endswith("_out"): drop it
DropOutColumns(t) == DropColumns(t, {c \in t.cols : EndsWithOut(c)})

(* ------------------------- target derivation -------------------------- *)
\* faulty variant: every closed outcome other than "won" counts as a loss
TargetWinClosedIsLoss(oc) ==
    [i \in 1..Len(oc) |->
        IF oc[i] = Some("won") THEN Some(1)
        ELSE IF notna(oc[i]) THEN Some(0) ELSE NaN]

\* np.where(outcome == "won", 1, np.where(outcome == "lost", 0, np.nan))
TargetWin(oc) ==
    [i \in 1..Len(oc) |->
        IF oc[i] = Some("won") THEN Some(1)
        ELSE IF oc[i] = Some("lost") THEN Some(0) ELSE NaN]

\* faulty variant: the score is not clamped
ClipNot(c) == c

\* Series.clip(0, 1) of one cell
Clip(c) ==
    IF ~notna(c) THEN NaN
    ELSE IF Val(c) < 0 THEN Some(0)
    ELSE IF Val(c) > One THEN Some(One) ELSE c

\* faulty variant: the outcome takes precedence over the score
TargetRiskOutcomeFirst(clipped, oc) ==
    [i \in 1..Len(clipped) |->
        IF oc[i] = Some("lost") THEN Some(One)
        ELSE IF oc[i] = Some("won") THEN Some(0) ELSE clipped[i]]

\* faulty variant: the fallback values exchanged
TargetRiskSwapped(clipped, oc) ==
    [i \in 1..Len(clipped) |->
        IF notna(clipped[i]) THEN clipped[i]
        ELSE IF oc[i] = Some("lost") THEN Some(0)
        ELSE IF oc[i] = Some("won") THEN Some(One) ELSE NaN]

\* np.where(clipped.notna(), clipped, np.where(outcome == "lost", 1.0,
\*          np.where(outcome == "won", 0.0, np.nan)))
TargetRisk(clipped, oc) ==
    [i \in 1..Len(clipped) |->
        IF notna(clipped[i]) THEN clipped[i]
        ELSE IF oc[i] = Some("lost") THEN Some(One)
        ELSE IF oc[i] = Some("won") THEN Some(0) ELSE NaN]

\* faulty variant: closed only when won or lost
IsClosedWonLost(oc) ==
    [i \in 1..Len(oc) |->
        IF oc[i] = Some("won") \/ oc[i] = Some("lost") THEN Some(1) ELSE Some(0)]

\* faulty variant: closed only when won
IsClosedWonOnly(oc) ==
    [i \in 1..Len(oc) |-> IF oc[i] = Some("won") THEN Some(1) ELSE Some(0)]

\* np.where(outcome.notna(), 1, 0)
IsClosed(oc) == [i \in 1..Len(oc) |-> IF notna(oc[i]) THEN Some(1) ELSE Some(0)]

(* --------------------------- mode projection -------------------------- *)
Modes == {"outcome_joined", "risk_scoring", "win_probability"}

\* _PLACEHOLDER, in the order of the dict
PlaceholderNames ==
    <<probability, days_to_close, stage_encoded, industry_encoded,
      days_since_last_activity, activity_count_30d, stakeholder_count>>

PlaceholderValue(c) ==
    IF c = probability THEN Some(Half)
    ELSE IF c = days_since_last_activity THEN Some(999)
    ELSE Some(0)

\* faulty variant: a placeholder is set only when the frame lacks the column
RECURSIVE WithPlaceholdersIfMissing(_, _)
WithPlaceholdersIfMissing(t, i) ==
    IF i > Len(PlaceholderNames) THEN t
    ELSE WithPlaceholdersIfMissing(
            IF PlaceholderNames[i] \in t.cols THEN t
            ELSE AssignScalar(t, PlaceholderNames[i], PlaceholderValue(PlaceholderNames[i])),
            i + 1)

\* for k, v in _PLACEHOLDER.items(): merged[k] = v
RECURSIVE WithPlaceholders(_, _)
WithPlaceholders(t, i) ==
    IF i > Len(PlaceholderNames) THEN t
    ELSE WithPlaceholders(
            AssignScalar(t, PlaceholderNames[i], PlaceholderValue(PlaceholderNames[i])),
            i + 1)

\* faulty variant: the default whatever the frame holds
FillnaOrDefaultConstant(t, dst, c, v) == AssignScalar(t, dst, Some(v))

\* t[c].fillna(v) if c in t.columns else v, assigned to the column dst
FillnaOrDefault(t, dst, c, v) ==
    IF c \in t.cols
    THEN AssignArray(t, dst,
            [i \in 1..Len(t.rows) |-> IF notna(t.rows[i][c]) THEN t.rows[i][c] ELSE Some(v)])
    ELSE AssignScalar(t, dst, Some(v))

\* t.dropna(subset=[c])
DropNa(t, c) == FilterRows(t, {i \in 1..Len(t.rows) : notna(t.rows[i][c])})

\* t[columns]: the listed columns, in the listed order
SelectColumns(t, columns) ==
    [columns |-> columns,
     rows |-> [i \in 1..Len(t.rows) |->
                 [k \in {columns[j] : j \in 1..Len(columns)} |-> t.rows[i][k]]]]

\* the keep list of mode outcome_joined, evaluationId inserted after timestamp
\* when the merged frame has it
KeepList(t) ==
    IF evaluationId \in t.cols
    THEN <<tenantId, opportunityId, riskScore, categoryScores, timestamp, evaluationId,
           outcome, amount, closeDate, recordedAt, target_risk, target_win, is_closed>>
    ELSE <<tenantId, opportunityId, riskScore, categoryScores, timestamp,
           outcome, amount, closeDate, recordedAt, target_risk, target_win, is_closed>>

\* for c in keep: if c not in merged.columns and c != "evaluationId": merged[c] = np.nan
RECURSIVE WithMissingAsNaN(_, _, _)
WithMissingAsNaN(t, keep, i) ==
    IF i > Len(keep) THEN t
    ELSE WithMissingAsNaN(
            IF keep[i] \notin t.cols /\ keep[i] # evaluationId
            THEN AssignScalar(t, keep[i], NaN) ELSE t,
            keep, i + 1)

ProjectOutcomeJoined(t) ==
    LET keep == KeepList(t)
        filled == WithMissingAsNaN(t, keep, 1)
    IN  SelectColumns(filled,
                      SelectAt(keep, {j \in 1..Len(keep) : keep[j] \in filled.cols}, 1))

RequiredCommon ==
    <<amount, probability, days_to_close, stage_encoded, industry_encoded,
      days_since_last_activity, activity_count_30d, stakeholder_count>>

\* faulty variant: no row is dropped
RiskRowsKeepAll(t) == t

\* the rows mode risk_scoring keeps
RiskRows(t) == DropNa(t, target_risk)

\* faulty variant: risk_score_latest is written only when riskScore exists
ProjectRiskScoringAuxIfScore(t) ==
    LET ph == WithPlaceholders(t, 1)
        am == FillnaOrDefault(ph, amount, amount, 0)
        rl == FillnaOrDefault(am, risk_score_latest, riskScore, Half)
    IN  SelectColumns(rl, <<tenantId, opportunityId>> \o RequiredCommon \o <<target_risk>>
                              \o (IF riskScore \in t.cols THEN <<risk_score_latest>> ELSE <<>>))

\* mode risk_scoring after the emptiness check
ProjectRiskScoring(t) ==
    LET ph == WithPlaceholders(t, 1)
        am == FillnaOrDefault(ph, amount, amount, 0)
        rl == FillnaOrDefault(am, risk_score_latest, riskScore, Half)
    IN  SelectColumns(rl, <<tenantId, opportunityId>> \o RequiredCommon
                              \o <<target_risk, risk_score_latest>>)

\* faulty variant: closed rows are kept whatever their target_win
WinRowsClosedOnly(t) ==
    FilterRows(t, {i \in 1..Len(t.rows) : t.rows[i][is_closed] = Some(1)})

\* the rows mode win_probability keeps
WinRows(t) ==
    DropNa(FilterRows(t, {i \in 1..Len(t.rows) : t.rows[i][is_closed] = Some(1)}),
           target_win)

\* mode win_probability after the emptiness check
ProjectWinProbability(t) ==
    LET ph == WithPlaceholders(t, 1)
        am == FillnaOrDefault(ph, amount, amount, 0)
    IN  SelectColumns(am, <<tenantId, opportunityId>> \o RequiredCommon
                              \o <<target_win, is_closed>>)

(* ------------------------------ trainers ------------------------------ *)
\* the checks train_risk_scoring.py and train_win_probability.py make on the
\* table they read, up to the fit; a frame is [columns, rows] as written

\* df.empty
FrameEmpty(df) == Len(df.rows) = 0 \/ Len(df.columns) = 0

\* c in df.columns
HasColumn(df, c) == \E k \in 1..Len(df.columns) : df.columns[k] = c

\* df[mask]
FrameFilter(df, keep) == [columns |-> df.columns, rows |-> SelectAt(df.rows, keep, 1)]

\* if args.tenant_id and "tenantId" in df.columns: df = df[df["tenantId"] == args.tenant_id]
TrainerTenantFilter(df, tenant_id) ==
    IF tenant_id # None /\ tenant_id # Some("") /\ HasColumn(df, tenantId)
    THEN FrameFilter(df, {i \in 1..Len(df.rows) : df.rows[i][tenantId] = tenant_id})
    ELSE df

\* REQUIRED of train_risk_scoring.py
REQUIRED_risk_scoring ==
    <<amount, probability, days_to_close, stage_encoded, industry_encoded,
      days_since_last_activity, activity_count_30d, stakeholder_count, target_risk>>

\* train_risk_scoring.py up to the fit: the diagnostic it ends on, "" when
\* it goes on to train
TrainRiskScoring(df, tenant_id) ==
    IF FrameEmpty(df) THEN "Input is empty; cannot train."
    ELSE IF \E k \in 1..Len(REQUIRED_risk_scoring) : ~HasColumn(df, REQUIRED_risk_scoring[k])
    THEN "Missing required column"
    ELSE IF FrameEmpty(TrainerTenantFilter(df, tenant_id)) THEN "No rows after tenant filter."
    ELSE ""

\* REQUIRED of train_win_probability.py
REQUIRED_win_probability ==
    <<amount, probability, days_to_close, stage_encoded, industry_encoded,
      days_since_last_activity, activity_count_30d, stakeholder_count, target_win>>

\* the rows train_win_probability.py keeps: is_closed == 1 (when the column
\* exists), then dropna(subset=["target_win"])
TrainWinRows(df) ==
    LET closed == IF HasColumn(df, is_closed)
                  THEN FrameFilter(df, {i \in 1..Len(df.rows) : df.rows[i][is_closed] = Some(1)})
                  ELSE df
    IN  FrameFilter(closed, {i \in 1..Len(closed.rows) : notna(closed.rows[i][target_win])})

\* train_win_probability.py up to the fit
TrainWinProbability(df, tenant_id) ==
    IF FrameEmpty(df) THEN "Input is empty."
    ELSE IF \E k \in 1..Len(REQUIRED_win_probability) :
                ~HasColumn(df, REQUIRED_win_probability[k])
    THEN "Missing required column"
    ELSE IF FrameEmpty(TrainWinRows(df))
    THEN "No rows after is_closed and target_win filter."
    ELSE LET kept == TrainerTenantFilter(TrainWinRows(df), tenant_id)
         IN  IF FrameEmpty(kept) THEN "No rows after tenant filter."
             ELSE IF \E i \in 1..Len(kept.rows) : Val(kept.rows[i][target_win]) \notin {0, 1}
             THEN "target_win must be 0 or 1."
             ELSE ""

(* ------------------------------- paths -------------------------------- *)
\* a path is the sequence of its "/"-separated segments, a segment the
\* sequence of its tokens; a trailing "/" is a last segment without tokens
Seg(s) == <<s>>
ParquetFile(stem) == <<stem, ".parquet">>
DateSeg(label) == <<"date=", label>>

\* os.path.dirname(p)
Dirname(p) == IF Len(p) = 0 THEN <<>> ELSE SubSeq(p, 1, Len(p) - 1)

\* os.path.basename(p)
Basename(p) == IF Len(p) = 0 THEN <<>> ELSE p[Len(p)]

\* p.rstrip("/")
RECURSIVE RStripSlash(_)
RStripSlash(p) ==
    IF Len(p) > 0 /\ p[Len(p)] = <<>> THEN RStripSlash(SubSeq(p, 1, Len(p) - 1)) ELSE p

\* p.endswith(".parquet")
EndsWithParquet(p) ==
    Len(p) > 0 /\ Len(p[Len(p)]) > 0 /\ p[Len(p)][Len(p[Len(p)])] = ".parquet"

\* os.path.isdir(d or "."): the working directory is the path without segments
IsDir(files, d) == RStripSlash(d) \in files.dirs

\* faulty variant: the output path is always taken for a directory
ResolvePathAsDirectory(p, partition_date, files) ==
    IF partition_date # None /\ partition_date # Some("") /\ IsDir(files, Dirname(p))
    THEN RStripSlash(p) \o <<DateSeg(Val(partition_date)), ParquetFile("data")>>
    ELSE p

\* the path main() writes to
ResolvePath(p, partition_date, files) ==
    IF partition_date # None /\ partition_date # Some("") /\ IsDir(files, Dirname(p))
    THEN LET base == RStripSlash(p)
         IN  IF ~EndsWithParquet(base)
             THEN base \o <<DateSeg(Val(partition_date)), ParquetFile("data")>>
             ELSE Dirname(base) \o <<DateSeg(Val(partition_date)), Basename(base)>>
    ELSE p

\* the directories os.makedirs(d, exist_ok=True) makes sure exist
Prefixes(d) == {SubSeq(d, 1, n) : n \in 0..Len(d)}

\* os.makedirs(d) fails when a component of d is an existing file
MakedirsFails(files, d) == \E q \in Prefixes(RStripSlash(d)) : q \in DOMAIN files.data

\* to_parquet(p) fails when p names a directory
WriteFails(files, p) ==
    p = <<>> \/ p[Len(p)] = <<>> \/ p \in files.dirs

(* ------------------------------- state -------------------------------- *)
VARIABLES
    args,     \* the parsed command line: model_id, tenant_id, partition_date, output_path
    input,    \* the Parquet data at --risk-evaluations-path and --ml-outcomes-path
    files,    \* the file system: existing directories, and the tables written
    pc,       \* the stage main() is about to run
    rev,      \* the evaluation frame
    out,      \* the outcome frame
    merged,   \* the merged frame
    out_df,   \* the projected frame
    rc,       \* the exit status of the process, None while it runs
    err,      \* what ended the run: "" or the diagnostic / exception
    wrote,    \* the path of the "Wrote ... rows to" message, NoPath before it
    prior     \* what an earlier run on the same command line left, NoRun if none

vars == <<args, input, files, pc, rev, out, merged, out_df, rc, err, wrote, prior>>

NoFrame == [columns |-> <<>>, rows |-> <<>>]

\* no path: nothing is written yet
NoPath == <<>>

\* no earlier run
NoRun == [rc |-> None, wrote |-> NoPath, out_df |-> NoFrame, files |-> [dirs |-> {}, data |-> <<>>]]

\* what a write that raised part-way leaves at its path: not a table
PartialFile == [columns |-> <<>>, rows |-> <<>>, partial |-> TRUE]

(* ------------------------------- inputs ------------------------------- *)
\* the cells Init draws for a column
CellDomain(c) ==
    IF c = tenantId THEN {Some("t1"), Some("t2")}
    ELSE IF c = opportunityId THEN {Some(1), Some(2)}
    ELSE IF c = outcome THEN {NaN, Some("won"), Some("lost"), Some("abandoned")}
    ELSE IF c = riskScore THEN {NaN, Some(0 - 5), Some(5), Some(15)}
    ELSE IF c = amount THEN {NaN, Some(7)}
    ELSE {NaN, Some(9)}

\* every row over the columns cols
RECURSIVE RowsOver(_)
RowsOver(cols) ==
    IF cols = {} THEN {<<>>}
    ELSE LET c == CHOOSE x \in cols : TRUE
         IN  {[k \in cols |-> IF k = c THEN v ELSE r[k]] :
                 r \in RowsOver(cols \ {c}), v \in CellDomain(c)}

\* every table over the columns cols with at most n rows
Tables(cols, n) ==
    {[cols |-> cols, rows |-> rs] : rs \in UNION {[1..k -> RowsOver(cols)] : k \in 0..n}}

Keyed == {tenantId, opportunityId}

\* the command line of a run with the defaults of the parser
DefaultArgs ==
    [model_id |-> "outcome_joined", tenant_id |-> None, partition_date |-> None,
     output_path |-> <<Seg("out"), ParquetFile("data")>>]

\* a file system with the working directory only
FreshFiles == [dirs |-> {<<>>}, data |-> <<>>]

\* main() is entered: nothing is loaded yet
AtStart ==
    /\ pc = "load"
    /\ rev = EmptyTable
    /\ out = EmptyTable
    /\ merged = EmptyTable
    /\ out_df = NoFrame
    /\ rc = None
    /\ err = ""
    /\ wrote = NoPath
    /\ prior = NoRun

\* a run of main() on one of the input pairs ins, one of the command lines
\* cmds and one of the file systems fss
InitOver(ins, cmds, fss) ==
    /\ input \in ins
    /\ args \in cmds
    /\ files \in fss
    /\ AtStart

\* a default run on an evaluation table with the columns ec (at most ne rows)
\* and an outcome table with the columns oc (at most no rows)
InitFamily(ec, ne, oc, no) ==
    /\ \E e \in Tables(ec, ne), o \in Tables(oc, no) : input = [rev |-> e, out |-> o]
    /\ args = DefaultArgs
    /\ files = FreshFiles
    /\ AtStart

\* the runs Spec checks: narrow tables up to the bounds, wide ones a row less
Init ==
    \* keys and outcomes: duplicates, back-filled and explicit outcome tenants
    \/ InitFamily(Keyed, MaxRev, {opportunityId, outcome}, MaxOut)
    \/ InitFamily(Keyed, MaxRev - 1, {tenantId, opportunityId, outcome}, MaxOut)
    \* scores against outcomes
    \/ InitFamily(Keyed \cup {riskScore}, MaxRev - 1, {opportunityId, outcome}, MaxOut - 1)
    \* no outcome column on either side
    \/ InitFamily(Keyed \cup {riskScore}, MaxRev - 1, {opportunityId}, MaxOut)
    \* the outcome column on the evaluation side only
    \/ InitFamily(Keyed \cup {outcome}, MaxRev - 1, {opportunityId}, MaxOut)
    \* a non-key column on both sides
    \/ InitFamily(Keyed \cup {amount}, MaxRev - 1, {opportunityId, amount}, MaxOut)
    \/ InitFamily(Keyed \cup {amount_out}, MaxRev - 1, {opportunityId, amount_out}, MaxOut)
    \* an evaluation column whose name ends in "_out"
    \/ InitFamily(Keyed \cup {amount_out}, MaxRev - 1, {opportunityId}, MaxOut)
    \/ InitFamily(Keyed \cup {amount, amount_out}, MaxRev - 1, {opportunityId, amount}, MaxOut - 1)
    \* missing key columns, an evaluation table without columns
    \/ InitFamily({opportunityId}, MaxRev - 1, {opportunityId, outcome}, MaxOut - 1)
    \/ InitFamily({tenantId}, MaxRev - 1, {opportunityId, outcome}, MaxOut - 1)
    \/ InitFamily(Keyed, MaxRev - 1, {tenantId, outcome}, MaxOut - 1)
    \/ InitFamily({}, 0, {opportunityId}, MaxOut - 1)

(* ------------------------------ actions ------------------------------- *)
\* faulty variant: the failure is recorded and the run goes on to the writer
Exit1KeepGoing(e) == pc' = "write" /\ rc' = Some(1) /\ err' = e

\* return 1 / an uncaught exception: the process ends with status 1
Exit1(e) == pc' = "exit" /\ rc' = Some(1) /\ err' = e

\* lines 77-79: both reads succeed
LoadOk ==
    /\ pc = "load"
    /\ rev' = input.rev
    /\ out' = input.out
    /\ pc' = "validate"
    /\ UNCHANGED <<args, input, files, merged, out_df, rc, err, wrote, prior>>

\* lines 80-82: a read raises
LoadFail ==
    /\ pc = "load"
    /\ Exit1("Failed to read Parquet")
    /\ UNCHANGED <<args, input, files, rev, out, merged, out_df, wrote, prior>>

\* faulty variant: the tenant of the last evaluation row
BackfillTenantLast(r) ==
    IF tenantId \in r.cols /\ Len(r.rows) # 0 THEN r.rows[Len(r.rows)][tenantId] ELSE Some("")

\* the value line 97 back-fills the outcome frame's tenantId with
BackfillTenant(r) ==
    IF tenantId \in r.cols /\ Len(r.rows) # 0 THEN r.rows[1][tenantId] ELSE Some("")

\* faulty variant: the emptiness check of line 84 left out
ValidationErrorNoEmptyCheck(r, o) ==
    IF tenantId \notin r.cols THEN "risk_evaluations missing: tenantId"
    ELSE IF opportunityId \notin r.cols THEN "risk_evaluations missing: opportunityId"
    ELSE IF opportunityId \notin o.cols THEN "ml_outcomes missing: opportunityId"
    ELSE ""

\* the diagnostic of lines 84-95, "" when the frames pass
ValidationError(r, o) ==
    IF IsEmpty(r) THEN "risk_evaluations is empty."
    ELSE IF tenantId \notin r.cols THEN "risk_evaluations missing: tenantId"
    ELSE IF opportunityId \notin r.cols THEN "risk_evaluations missing: opportunityId"
    ELSE IF opportunityId \notin o.cols THEN "ml_outcomes missing: opportunityId"
    ELSE ""

\* faulty variant: the empty string is back-filled whatever the evaluation frame
NormalizeOutEmptyTenant(r, o) ==
    IF tenantId \notin o.cols THEN AssignScalar(o, tenantId, Some("")) ELSE o

\* lines 96-97
NormalizeOut(r, o) ==
    IF tenantId \notin o.cols THEN AssignScalar(o, tenantId, BackfillTenant(r)) ELSE o

\* lines 84-97
Validate ==
    /\ pc = "validate"
    /\ IF ValidationError(rev, out) # ""
       THEN Exit1(ValidationError(rev, out)) /\ UNCHANGED out
       ELSE out' = NormalizeOut(rev, out) /\ pc' = "join" /\ UNCHANGED <<rc, err>>
    /\ UNCHANGED <<args, input, files, rev, merged, out_df, wrote, prior>>

\* lines 100-110 when no exception is raised
JoinFrames(r, o) ==
    DropOutColumns(Merge(r, DropDuplicates(o, JoinKeys), JoinKeys, "", "_out"))

\* lines 100-110
Join ==
    /\ pc = "join"
    /\ IF SuffixClash(rev, DropDuplicates(out, JoinKeys), JoinKeys, "", "_out")
       THEN Exit1("MergeError or KeyError") /\ UNCHANGED merged
       ELSE merged' = JoinFrames(rev, out) /\ pc' = "derive" /\ UNCHANGED <<rc, err>>
    /\ UNCHANGED <<args, input, files, rev, out, out_df, wrote, prior>>

\* lines 113-127 when no exception is raised
DeriveTargets(m) ==
    LET oc == GetOrEmpty(m, outcome)
        m1 == AssignArray(m, target_win, TargetWin(oc))
        risk == GetOrEmpty(m1, riskScore)
        m2 == AssignSeries(m1, target_risk, [i \in 1..Len(risk) |-> Clip(risk[i])])
        m3 == AssignArray(m2, target_risk,
                          TargetRisk(GetOrEmpty(m2, target_risk), GetOrEmpty(m2, outcome)))
    IN  AssignArray(m3, is_closed, IsClosed(GetOrEmpty(m3, outcome)))

\* line 113 assigns an array: its length must be that of the frame
DeriveRaises(m) == Len(TargetWin(GetOrEmpty(m, outcome))) # Len(m.rows)

\* lines 113-127
Derive ==
    /\ pc = "derive"
    /\ IF DeriveRaises(merged)
       THEN Exit1("ValueError: Length of values does not match length of index")
            /\ UNCHANGED merged
       ELSE merged' = DeriveTargets(merged) /\ pc' = "filter" /\ UNCHANGED <<rc, err>>
    /\ UNCHANGED <<args, input, files, rev, out, out_df, wrote, prior>>

\* Python truth of an optional string argument
Truthy(a) == a # None /\ a # Some("")

\* lines 129-130
TenantFilter(m, tenant_id) ==
    IF Truthy(tenant_id) /\ tenantId \in m.cols
    THEN FilterRows(m, {i \in 1..Len(m.rows) : m.rows[i][tenantId] = tenant_id})
    ELSE m

Filter ==
    /\ pc = "filter"
    /\ merged' = TenantFilter(merged, args.tenant_id)
    /\ pc' = "project"
    /\ UNCHANGED <<args, input, files, rev, out, out_df, rc, err, wrote, prior>>

\* the rows a mode keeps (lines 146, 158; mode outcome_joined keeps all)
ModeRows(m, model_id) ==
    IF model_id = "risk_scoring" THEN RiskRows(m)
    ELSE IF model_id = "win_probability" THEN WinRows(m)
    ELSE m

\* faulty variant: the emptiness checks left out
ProjectErrorNone(m, model_id) == ""

\* the diagnostic of lines 147-149 and 159-161, "" when rows remain
ProjectError(m, model_id) ==
    IF model_id = "risk_scoring" /\ IsEmpty(RiskRows(m))
    THEN "No rows with target_risk after join."
    ELSE IF model_id = "win_probability" /\ IsEmpty(WinRows(m))
    THEN "No closed rows with target_win after join."
    ELSE ""

\* lines 132-167 when the mode's rows are not empty
ProjectFrame(m, model_id) ==
    IF model_id = "outcome_joined" THEN ProjectOutcomeJoined(m)
    ELSE IF model_id = "risk_scoring" THEN ProjectRiskScoring(RiskRows(m))
    ELSE ProjectWinProbability(WinRows(m))

\* lines 132-167
Project ==
    /\ pc = "project"
    /\ IF ProjectError(merged, args.model_id) # ""
       THEN /\ Exit1(ProjectError(merged, args.model_id))
            /\ merged' = ModeRows(merged, args.model_id)
            /\ UNCHANGED out_df
       ELSE /\ out_df' = ProjectFrame(merged, args.model_id)
            /\ merged' = ModeRows(merged, args.model_id)
            /\ pc' = "write"
            /\ UNCHANGED <<rc, err>>
    /\ UNCHANGED <<args, input, files, rev, out, wrote, prior>>

\* os.makedirs(d, exist_ok=True) for a non-empty d
Makedirs(fs, d) ==
    IF d = <<>> THEN fs ELSE [fs EXCEPT !.dirs = @ \cup Prefixes(RStripSlash(d))]

\* faulty variant: the directory of the file is written into the rows, as a
\* column "date"
ToParquetStamped(fs, p, frame) ==
    LET stamped ==
           [columns |-> Append(frame.columns, <<"date">>),
            rows |-> [i \in 1..Len(frame.rows) |->
                        [k \in DOMAIN frame.rows[i] \cup {<<"date">>} |->
                            IF k = <<"date">> THEN Some(Dirname(p)) ELSE frame.rows[i][k]]]]
    IN  [fs EXCEPT !.data = [q \in DOMAIN @ \cup {p} |-> IF q = p THEN stamped ELSE @[q]]]

\* out_df.to_parquet(p, index=False): the file at p is replaced
ToParquet(fs, p, frame) ==
    [fs EXCEPT !.data = [q \in DOMAIN @ \cup {p} |-> IF q = p THEN frame ELSE @[q]]]

\* lines 170-184
Write ==
    /\ pc = "write"
    /\ LET p == ResolvePath(args.output_path, args.partition_date, files)
           d == Dirname(p)
       IN  IF d # <<>> /\ MakedirsFails(files, d)
           THEN Exit1("FileExistsError") /\ UNCHANGED <<files, wrote>>
           ELSE IF WriteFails(Makedirs(files, d), p)
           THEN Exit1("IsADirectoryError") /\ files' = Makedirs(files, d) /\ UNCHANGED wrote
           ELSE /\ files' = ToParquet(Makedirs(files, d), p, out_df)
                /\ wrote' = p
                /\ pc' = "exit"
                /\ rc' = Some(0)
                /\ UNCHANGED err
    /\ UNCHANGED <<args, input, rev, out, merged, out_df, prior>>

\* lines 170-182 when to_parquet raises after it has opened (created or
\* truncated) the file at p: nothing catches the exception, nothing removes
\* the file
WriteInterrupted ==
    /\ pc = "write"
    /\ LET p == ResolvePath(args.output_path, args.partition_date, files)
           d == Dirname(p)
       IN  /\ ~(d # <<>> /\ MakedirsFails(files, d))
           /\ ~WriteFails(Makedirs(files, d), p)
           /\ files' = ToParquet(Makedirs(files, d), p, PartialFile)
    /\ Exit1("OSError")
    /\ UNCHANGED <<args, input, rev, out, merged, out_df, wrote, prior>>

Next ==
    LoadOk \/ LoadFail \/ Validate \/ Join \/ Derive \/ Filter \/ Project \/ Write
       \/ WriteInterrupted

Spec == Init /\ [][Next]_vars

(* --------------------------- Scenario A ------------------------------- *)
\* E: two rows (t1, 1) and one row (any tenant, 2), in any order; O: (1, won)
\* followed by (1, lost), without a tenantId column or with tenantId t1
KeyRow(t, o) == [c \in Keyed |-> IF c = tenantId THEN Some(t) ELSE Some(o)]

ScenarioARev ==
    {[cols |-> Keyed, rows |-> rs] :
        rs \in UNION {{<<KeyRow("t1", 1), KeyRow("t1", 1), KeyRow(t, 2)>>,
                       <<KeyRow("t1", 1), KeyRow(t, 2), KeyRow("t1", 1)>>,
                       <<KeyRow(t, 2), KeyRow("t1", 1), KeyRow("t1", 1)>>} :
                      t \in {"t1", "t2"}}}

ScenarioAOut ==
    {[cols |-> {opportunityId, outcome},
      rows |-> <<[c \in {opportunityId, outcome} |->
                    IF c = opportunityId THEN Some(1) ELSE Some("won")],
                 [c \in {opportunityId, outcome} |->
                    IF c = opportunityId THEN Some(1) ELSE Some("lost")]>>],
     [cols |-> {tenantId, opportunityId, outcome},
      rows |-> <<[c \in {tenantId, opportunityId, outcome} |->
                    IF c = tenantId THEN Some("t1")
                    ELSE IF c = opportunityId THEN Some(1) ELSE Some("won")],
                 [c \in {tenantId, opportunityId, outcome} |->
                    IF c = tenantId THEN Some("t1")
                    ELSE IF c = opportunityId THEN Some(1) ELSE Some("lost")]>>]}

InitA ==
    InitOver({[rev |-> e, out |-> o] : e \in ScenarioARev, o \in ScenarioAOut},
             {[DefaultArgs EXCEPT !.model_id = m] : m \in Modes},
             {FreshFiles})

SpecA == InitA /\ [][Next]_vars

(* ------------------------ modes and tenants --------------------------- *)
\* the command lines of the three modes, without --tenant-id and with tenant t1
ModeArgs ==
    {[DefaultArgs EXCEPT !.model_id = m, !.tenant_id = t] :
        m \in Modes, t \in {None, Some("t1")}}

\* the command lines of the three modes with --tenant-id ""
EmptyTenantArgs ==
    {[DefaultArgs EXCEPT !.model_id = m, !.tenant_id = Some("")] : m \in Modes}

\* a run in any mode on an evaluation table with the columns ec (at most ne
\* rows) and an outcome table with the columns oc (at most no rows)
InitModesFamily(ec, ne, oc, no) ==
    /\ \E e \in Tables(ec, ne), o \in Tables(oc, no) : input = [rev |-> e, out |-> o]
    /\ args \in ModeArgs
    /\ files = FreshFiles
    /\ AtStart

\* Scenario C: five evaluation rows of opportunity 1 and two of opportunity
\* 2, in three orders; the outcome table closes opportunity 1 only
ScenarioCRev ==
    {[cols |-> Keyed, rows |-> rs] :
        rs \in {<<KeyRow("t1", 1), KeyRow("t1", 1), KeyRow("t1", 1), KeyRow("t1", 1),
                  KeyRow("t1", 1), KeyRow("t1", 2), KeyRow("t1", 2)>>,
                <<KeyRow("t1", 2), KeyRow("t1", 1), KeyRow("t1", 1), KeyRow("t1", 2),
                  KeyRow("t1", 1), KeyRow("t1", 1), KeyRow("t1", 1)>>,
                <<KeyRow("t1", 2), KeyRow("t1", 2), KeyRow("t1", 1), KeyRow("t1", 1),
                  KeyRow("t1", 1), KeyRow("t1", 1), KeyRow("t1", 1)>>}}

ScenarioCOut ==
    {[cols |-> {opportunityId, outcome},
      rows |-> <<[c \in {opportunityId, outcome} |->
                    IF c = opportunityId THEN Some(1) ELSE Some(w)]>>] :
        w \in {"won", "lost"}}

InitModes ==
    \* scores against outcomes, in every mode
    \/ InitModesFamily(Keyed \cup {riskScore}, MaxRev - 1, {opportunityId, outcome}, MaxOut - 1)
    \* several rows, some closed and some open
    \/ InitModesFamily(Keyed, MaxRev, {opportunityId, outcome}, MaxOut - 1)
    \* amount on the evaluation side, on the outcome side, on neither
    \/ InitModesFamily(Keyed \cup {amount}, MaxRev - 1, {opportunityId, outcome}, MaxOut - 1)
    \/ InitModesFamily(Keyed, MaxRev - 1, {opportunityId, outcome, amount}, MaxOut - 1)
    \* an input column with the name of a placeholder feature
    \/ InitModesFamily(Keyed \cup {probability}, MaxRev - 1, {opportunityId, outcome}, MaxOut - 1)
    \* the optional evaluationId
    \/ InitModesFamily(Keyed \cup {evaluationId}, MaxRev - 1, {opportunityId, outcome}, MaxOut - 1)
    \* no outcome column on either side
    \/ InitModesFamily(Keyed \cup {riskScore}, MaxRev - 1, {opportunityId}, MaxOut - 1)
    \* an empty tenant identifier
    \/ /\ \E e \in Tables(Keyed, MaxRev - 1), o \in Tables({opportunityId, outcome}, MaxOut - 1) :
             input = [rev |-> e, out |-> o]
       /\ args \in EmptyTenantArgs
       /\ files = FreshFiles
       /\ AtStart
    \* Scenario C
    \/ InitOver({[rev |-> e, out |-> o] : e \in ScenarioCRev, o \in ScenarioCOut},
                ModeArgs, {FreshFiles})

SpecModes == InitModes /\ [][Next]_vars

(* --------------------------- Scenario D ------------------------------- *)
\* --partition-date 2024-05-01 --output-path out/data.parquet
ScenarioDArgs ==
    {[DefaultArgs EXCEPT !.model_id = m, !.partition_date = Some("2024-05-01")] :
        m \in Modes}

\* the directory out does not exist, exists, or exists with the partition
\* directory in it
ScenarioDFiles ==
    {FreshFiles,
     [dirs |-> {<<>>, <<Seg("out")>>}, data |-> <<>>],
     [dirs |-> {<<>>, <<Seg("out")>>, <<Seg("out"), DateSeg("2024-05-01")>>}, data |-> <<>>]}

InitD ==
    /\ \E e \in Tables(Keyed, MaxRev - 1), o \in Tables({opportunityId, outcome}, MaxOut - 1) :
          input = [rev |-> e, out |-> o]
    /\ args \in ScenarioDArgs
    /\ files \in ScenarioDFiles
    /\ AtStart

SpecD == InitD /\ [][Next]_vars

(* ------------------------------ paths --------------------------------- *)
\* --output-path: out/data.parquet, out, out/, data.parquet,
\* out/data.parquet/ and out/sub/data.parquet
OutputPaths ==
    {<<Seg("out"), ParquetFile("data")>>,
     <<Seg("out")>>,
     <<Seg("out"), <<>>>>,
     <<ParquetFile("data")>>,
     <<Seg("out"), ParquetFile("data"), <<>>>>,
     <<Seg("out"), Seg("sub"), ParquetFile("data")>>}

PathArgs ==
    {[DefaultArgs EXCEPT !.output_path = q, !.partition_date = d] :
        q \in OutputPaths, d \in {None, Some("2024-05-01")}}

\* the working directory alone, with the directory out, and with the
\* directory out/data.parquet in it (a Parquet dataset directory)
PathFiles ==
    {FreshFiles,
     [dirs |-> {<<>>, <<Seg("out")>>}, data |-> <<>>],
     [dirs |-> {<<>>, <<Seg("out")>>, <<Seg("out"), ParquetFile("data")>>}, data |-> <<>>]}

InitPaths ==
    /\ \E e \in Tables(Keyed, MaxRev - 1), o \in Tables({opportunityId, outcome}, MaxOut - 1) :
          input = [rev |-> e, out |-> o]
    /\ args \in PathArgs
    /\ files \in PathFiles
    /\ AtStart

SpecPaths == InitPaths /\ [][Next]_vars

(* ---------------------------- two runs -------------------------------- *)
\* the caller runs the same command line on the same inputs once more, on the
\* file system the first run left
Rerun ==
    /\ pc = "exit"
    /\ prior = NoRun
    /\ prior' = [rc |-> rc, wrote |-> wrote, out_df |-> out_df, files |-> files]
    /\ pc' = "load"
    /\ rev' = EmptyTable
    /\ out' = EmptyTable
    /\ merged' = EmptyTable
    /\ out_df' = NoFrame
    /\ rc' = None
    /\ err' = ""
    /\ wrote' = NoPath
    /\ UNCHANGED <<args, input, files>>

NextTwice == Next \/ Rerun

\* every mode, with and without the partition label of Scenario D
TwiceArgs ==
    {[DefaultArgs EXCEPT !.model_id = m, !.partition_date = d] :
        m \in Modes, d \in {None, Some("2024-05-01")}}

InitTwice ==
    /\ \E e \in Tables(Keyed, MaxRev - 1), o \in Tables({opportunityId, outcome}, MaxOut - 1) :
          input = [rev |-> e, out |-> o]
    /\ args \in TwiceArgs
    /\ files \in ScenarioDFiles
    /\ AtStart

SpecTwice == InitTwice /\ [][NextTwice]_vars

\* mode win_probability over several outcome rows: some rows won or lost,
\* some closed otherwise, some open, with and without the tenant filter
WinArgs ==
    {[DefaultArgs EXCEPT !.model_id = "win_probability", !.tenant_id = t] :
        t \in {None, Some("t1")}}

InitWin ==
    /\ \E e \in Tables(Keyed, MaxRev), o \in Tables({opportunityId, outcome}, MaxOut) :
          input = [rev |-> e, out |-> o]
    /\ args \in WinArgs
    /\ files = FreshFiles
    /\ AtStart

SpecWin == InitWin /\ [][Next]_vars

(* ============================== claims ================================ *)
\* the join has run and merged is its result, no target derived yet
Joined == pc = "derive"

\* the targets are derived and merged still holds every row of the join
Derived == pc = "filter"

JoinError == err = "MergeError or KeyError"
DeriveError == err = "ValueError: Length of values does not match length of index"

\* the positions of the outcome rows that have the key of the evaluation row e
\* (in the outcome frame as normalised by lines 96-97)
MatchesOf(e) == {j \in 1..Len(out.rows) : KeyOf(out.rows[j], JoinKeys) = KeyOf(e, JoinKeys)}

First(S) == CHOOSE j \in S : \A k \in S : j <= k

\* the columns of the merged frame that come from the outcome side
OutcomeFields == merged.cols \ rev.cols

\* C1: the merged table of the join step has exactly |E| rows, whatever the
\* duplicates and matches of O; the join step raises for a clash of column
\* labels only, never for lack of matches, and a row without a match keeps
\* null in every outcome field.
C1_LeftJoinCardinality ==
    /\ (Joined \/ Derived) => Len(merged.rows) = Len(rev.rows)
    /\ JoinError => SuffixClash(rev, out, JoinKeys, "", "_out")
    /\ Joined =>
          \A i \in 1..Len(rev.rows) :
             MatchesOf(rev.rows[i]) = {} =>
                \A c \in OutcomeFields : merged.rows[i][c] = NaN

\* C1 witness: two evaluation rows are joined, one matched by a duplicated
\* outcome key, the other by no outcome row
C1_Witness ==
    /\ Joined
    /\ \E i, k \in 1..Len(rev.rows) :
          /\ Cardinality(MatchesOf(rev.rows[i])) >= 2
          /\ MatchesOf(rev.rows[k]) = {}
          /\ outcome \in OutcomeFields
          /\ merged.rows[k][outcome] = NaN

\* C2: when a key occurs more than once in the outcome table, every
\* evaluation row with that key carries the outcome fields of the first
\* outcome row with the key, in input order.
C2_FirstOutcomeWins ==
    Joined =>
       \A i \in 1..Len(rev.rows) :
          Cardinality(MatchesOf(rev.rows[i])) >= 2 =>
             \A c \in OutcomeFields :
                merged.rows[i][c] = out.rows[First(MatchesOf(rev.rows[i]))][c]

\* C2 witness: a duplicated key whose two outcome rows differ, joined to an
\* evaluation row that carries the first one's outcome
C2_Witness ==
    /\ Joined
    /\ outcome \in OutcomeFields
    /\ \E i \in 1..Len(rev.rows) :
          \E j, k \in MatchesOf(rev.rows[i]) :
             /\ j < k
             /\ out.rows[j][outcome] # out.rows[k][outcome]
             /\ merged.rows[i][outcome] = out.rows[j][outcome]

\* C3: in every merged row is_closed is 0 or 1, and it is 1 exactly when the
\* row's outcome is not null.
C3_IsClosedIffOutcome ==
    Derived =>
       \A i \in 1..Len(merged.rows) :
          /\ merged.rows[i][is_closed] \in {Some(0), Some(1)}
          /\ merged.rows[i][is_closed] = Some(1) <=> notna(merged.rows[i][outcome])

\* C3 witness: a row whose outcome is neither "won" nor "lost" is closed, next
\* to a row that is open
C3_Witness ==
    /\ Derived
    /\ \E i, k \in 1..Len(merged.rows) :
          /\ merged.rows[i][outcome] = Some("abandoned")
          /\ merged.rows[i][is_closed] = Some(1)
          /\ merged.rows[k][outcome] = NaN
          /\ merged.rows[k][is_closed] = Some(0)

\* C4: in every merged row target_win is 1 for outcome "won", 0 for outcome
\* "lost" and null for every other outcome, null included.
C4_TargetWin ==
    Derived =>
       \A i \in 1..Len(merged.rows) :
          merged.rows[i][target_win] =
             (IF merged.rows[i][outcome] = Some("won") THEN Some(1)
              ELSE IF merged.rows[i][outcome] = Some("lost") THEN Some(0)
              ELSE NaN)

\* C4 witness: a row with another non-null outcome has no target_win, next to
\* a row that was won
C4_Witness ==
    /\ Derived
    /\ \E i, k \in 1..Len(merged.rows) :
          /\ merged.rows[i][outcome] = Some("abandoned")
          /\ merged.rows[i][target_win] = NaN
          /\ merged.rows[k][outcome] = Some("won")
          /\ merged.rows[k][target_win] = Some(1)

\* C5: in every merged row with a non-null riskScore, target_risk is the
\* score clamped to [0, 1], whatever the outcome.
C5_ScoreWinsClamped ==
    Derived /\ riskScore \in merged.cols =>
       \A i \in 1..Len(merged.rows) :
          notna(merged.rows[i][riskScore]) =>
             merged.rows[i][target_risk] =
                (IF Val(merged.rows[i][riskScore]) < 0 THEN Some(0)
                 ELSE IF Val(merged.rows[i][riskScore]) > One THEN Some(One)
                 ELSE merged.rows[i][riskScore])

\* C5 witness: a score above 1 on a won row gives 1.0 (the outcome alone
\* would give 0.0)
C5_Witness ==
    /\ Derived
    /\ riskScore \in merged.cols
    /\ \E i \in 1..Len(merged.rows) :
          /\ merged.rows[i][riskScore] = Some(15)
          /\ merged.rows[i][outcome] = Some("won")
          /\ merged.rows[i][target_risk] = Some(One)

\* the riskScore of a merged row, null when the column does not exist
ScoreOf(row) == IF riskScore \in DOMAIN row THEN row[riskScore] ELSE NaN

\* C6: in every merged row whose riskScore is null or does not exist,
\* target_risk is 1.0 for outcome "lost", 0.0 for outcome "won" and null for
\* a null outcome.
C6_OutcomeFallback ==
    Derived =>
       \A i \in 1..Len(merged.rows) :
          ScoreOf(merged.rows[i]) = NaN =>
             /\ merged.rows[i][outcome] = Some("lost") => merged.rows[i][target_risk] = Some(One)
             /\ merged.rows[i][outcome] = Some("won") => merged.rows[i][target_risk] = Some(0)
             /\ merged.rows[i][outcome] = NaN => merged.rows[i][target_risk] = NaN

\* C6 witness: a lost row with a null score next to a won row with a null
\* score
C6_Witness ==
    /\ Derived
    /\ riskScore \in merged.cols
    /\ \E i \in 1..Len(merged.rows) :
          /\ merged.rows[i][riskScore] = NaN
          /\ merged.rows[i][outcome] = Some("lost")
          /\ merged.rows[i][target_risk] = Some(One)

\* neither input table has an outcome column
NoOutcomeColumn == outcome \notin input.rev.cols /\ outcome \notin input.out.cols

\* C7: when neither input has an outcome column, target derivation does not
\* fail, and every merged row gets is_closed = 0, no target_win, and the
\* clamped riskScore (or null) as target_risk.
C7_NoOutcomeColumn ==
    NoOutcomeColumn =>
       /\ ~DeriveError
       /\ Derived =>
             \A i \in 1..Len(merged.rows) :
                /\ merged.rows[i][is_closed] = Some(0)
                /\ merged.rows[i][target_win] = NaN
                /\ merged.rows[i][target_risk] = Clip(ScoreOf(merged.rows[i]))

\* the non-key columns of both input tables
Colliding == Overlap(input.rev, input.out, JoinKeys)

\* C8: a non-key column of both tables is in the merged table with the
\* evaluation side's value in every row, and its "_out" duplicate is not.
C8_EvaluationSideWins ==
    /\ ~JoinError
    /\ Joined =>
          \A c \in Colliding :
             /\ c \in merged.cols
             /\ WithSuffix(c, "_out") \notin merged.cols
             /\ \A i \in 1..Len(merged.rows) : merged.rows[i][c] = rev.rows[i][c]

\* the evaluation rows of Scenario A with opportunityId 1 are won and closed
ScenarioAWon ==
    \A i \in 1..Len(merged.rows) :
       merged.rows[i][opportunityId] = Some(1) =>
          /\ merged.rows[i][outcome] = Some("won")
          /\ merged.rows[i][is_closed] = Some(1)
          /\ merged.rows[i][target_win] = Some(1)

\* C9 as stated: in Scenario A, in any row order and for any tenant of the
\* third row, both evaluation rows with opportunityId 1 end with outcome
\* "won", is_closed = 1 and target_win = 1.
C9_ScenarioA_AnyOrder == Derived => ScenarioAWon

\* C9 amended: the same, provided the outcome table carries tenantId t1 or
\* the first evaluation row has tenantId t1.
C9_ScenarioA ==
    Derived /\ (tenantId \in input.out.cols \/ input.rev.rows[1][tenantId] = Some("t1"))
       => ScenarioAWon

\* C9 witness: the outcome table has no tenantId, the row with opportunityId 2
\* and another tenant is not first, and the two rows with opportunityId 1
\* are won
C9_Witness ==
    /\ Derived
    /\ tenantId \notin input.out.cols
    /\ \E i \in 2..Len(merged.rows) : merged.rows[i][tenantId] = Some("t2")
    /\ Cardinality({i \in 1..Len(merged.rows) :
                      merged.rows[i][target_win] = Some(1)}) = 2

\* the run's inputs fail the validation of lines 84-95
InvalidInput ==
    \/ IsEmpty(input.rev)
    \/ tenantId \notin input.rev.cols
    \/ opportunityId \notin input.rev.cols
    \/ opportunityId \notin input.out.cols

\* C10: a run on an empty evaluation table, or on an evaluation table without
\* tenantId or opportunityId, or on an outcome table without opportunityId,
\* ends with exit status 1, writes no file, and never joins, derives or
\* projects.
C10_ValidationFails ==
    InvalidInput =>
       /\ pc \in {"load", "validate", "exit"}
       /\ pc = "exit" => rc = Some(1)
       /\ DOMAIN files.data = {}
       /\ merged = EmptyTable
       /\ out_df = NoFrame

\* C10 witness: a run on an outcome table without opportunityId has ended
\* on the diagnostic of line 94
C10_Witness ==
    /\ pc = "exit"
    /\ rc = Some(1)
    /\ err = "ml_outcomes missing: opportunityId"
    /\ Len(input.rev.rows) > 0

\* the outcome table lacks tenantId, and the inputs pass every other check of
\* lines 84-95
BackfillCase ==
    /\ tenantId \notin input.out.cols
    /\ opportunityId \in input.out.cols
    /\ ~IsEmpty(input.rev)
    /\ opportunityId \in input.rev.cols

\* both tables are read and the checks of lines 84-97 are over
Validated == pc \notin {"load", "validate"} /\ err # "Failed to read Parquet"

\* the outcome frame is the outcome table with the constant tenantId v added
BackfilledWith(v) ==
    /\ out.cols = input.out.cols \cup {tenantId}
    /\ Len(out.rows) = Len(input.out.rows)
    /\ \A j \in 1..Len(out.rows) :
          /\ out.rows[j][tenantId] = v
          /\ \A c \in input.out.cols : out.rows[j][c] = input.out.rows[j][c]

\* C11 as stated: when the outcome table has no tenantId column, every outcome
\* row is given the tenantId of the first evaluation row, or the empty string
\* when the evaluation table lacks the column, before deduplication and join.
C11_BackfillOrEmptyString ==
    BackfillCase /\ Validated =>
       BackfilledWith(IF tenantId \in input.rev.cols
                      THEN input.rev.rows[1][tenantId] ELSE Some(""))

\* C11 amended: when the outcome table has no tenantId column, every outcome
\* row is given the tenantId of the first evaluation row before deduplication
\* and join; when the evaluation table lacks the column too, nothing is
\* back-filled: the run ends with status 1 before the join.
C11_Backfill ==
    BackfillCase /\ Validated =>
       IF tenantId \in input.rev.cols
       THEN BackfilledWith(input.rev.rows[1][tenantId])
       ELSE pc = "exit" /\ rc = Some(1) /\ out = input.out /\ merged = EmptyTable

\* C11 witness: two outcome rows got the tenant of the first of two
\* evaluation rows of different tenants, and the join is about to run
C11_Witness ==
    /\ pc = "join"
    /\ tenantId \notin input.out.cols
    /\ Len(out.rows) = 2
    /\ Len(rev.rows) = 2
    /\ rev.rows[1][tenantId] # rev.rows[2][tenantId]
    /\ \A j \in 1..2 : out.rows[j][tenantId] = rev.rows[1][tenantId]

\* the tenant filter has run and merged is its result, nothing projected yet
Filtered == pc = "project"

\* the mode's projection is done and out_df is about to be written
Projected == pc = "write"

\* C12: for every string given as --tenant-id, the rows left by the tenant
\* filter are exactly the merged rows of that tenant, before the mode's
\* projection, and every row of the projected output has that tenantId.
C12_TenantFilter ==
    args.tenant_id # None =>
       /\ Filtered =>
             /\ \A i \in 1..Len(merged.rows) : merged.rows[i][tenantId] = args.tenant_id
             /\ Len(merged.rows) =
                   Cardinality({i \in 1..Len(rev.rows) : rev.rows[i][tenantId] = args.tenant_id})
       /\ Projected =>
             \A j \in 1..Len(out_df.rows) : out_df.rows[j][tenantId] = args.tenant_id

\* the columns mode outcome_joined lists, evaluationId among them
OutcomeJoinedColumns ==
    <<tenantId, opportunityId, riskScore, categoryScores, timestamp, evaluationId,
      outcome, amount, closeDate, recordedAt, target_risk, target_win, is_closed>>

\* the optional source columns of the list
OptionalSourceColumns ==
    {riskScore, categoryScores, timestamp, evaluationId, outcome, amount, closeDate, recordedAt}

\* C13: in mode outcome_joined the output columns are the same list, in the
\* same order, whatever optional source columns the inputs had; a listed
\* column that no input had is all null, and no placeholder feature is a
\* column of the output.
C13_StableSchema ==
    args.model_id = "outcome_joined" /\ Projected =>
       /\ out_df.columns = OutcomeJoinedColumns
       /\ \A c \in OptionalSourceColumns \ (input.rev.cols \cup input.out.cols) :
             \A j \in 1..Len(out_df.rows) : out_df.rows[j][c] = NaN
       /\ \A k \in 1..Len(PlaceholderNames), j \in 1..Len(out_df.columns) :
             out_df.columns[j] # PlaceholderNames[k]

\* the j-th smallest position of the set S of positions
Nth(S, j) == CHOOSE i \in S : Cardinality({k \in S : k <= i}) = j

\* the positions of the merged rows whose target_risk is defined
RiskDefined == {i \in 1..Len(merged.rows) : notna(merged.rows[i][target_risk])}

\* every merged row has a null (or no) riskScore and a null outcome
ScenarioB ==
    \A i \in 1..Len(merged.rows) :
       ScoreOf(merged.rows[i]) = NaN /\ merged.rows[i][outcome] = NaN

\* C14: in mode risk_scoring the projection keeps exactly the merged rows
\* (after the tenant filter) whose target_risk is defined, in order; when
\* there is none (as in Scenario B) the run ends with status 1 on "No rows
\* with target_risk" and no file is written.
C14_RiskScoringRows ==
    [][(Filtered /\ args.model_id = "risk_scoring") =>
          /\ ScenarioB => RiskDefined = {}
          /\ IF RiskDefined = {}
             THEN /\ pc' = "exit"
                  /\ rc' = Some(1)
                  /\ err' = "No rows with target_risk after join."
                  /\ out_df' = NoFrame
                  /\ files' = files
                  /\ DOMAIN files.data = {}
             ELSE /\ pc' = "write"
                  /\ Len(out_df'.rows) = Cardinality(RiskDefined)
                  /\ \A j \in 1..Len(out_df'.rows) :
                        \A c \in {tenantId, opportunityId, target_risk} :
                           out_df'.rows[j][c] = merged.rows[Nth(RiskDefined, j)][c]]_vars

\* C14 witness: Scenario B, a risk_scoring run whose rows all have a null
\* riskScore and a null outcome has ended with status 1 and no file
C14_Witness ==
    /\ args.model_id = "risk_scoring"
    /\ pc = "exit"
    /\ rc = Some(1)
    /\ err = "No rows with target_risk after join."
    /\ riskScore \in input.rev.cols
    /\ Len(rev.rows) > 0
    /\ \A i \in 1..Len(rev.rows) : rev.rows[i][riskScore] = NaN
    /\ args.tenant_id = None
    /\ DOMAIN files.data = {}

\* the positions of the merged rows that are closed with a defined target_win
WinDefined ==
    {i \in 1..Len(merged.rows) :
        merged.rows[i][is_closed] = Some(1) /\ notna(merged.rows[i][target_win])}

\* C15: in mode win_probability the projection keeps exactly the merged rows
\* (after the tenant filter) with is_closed = 1 and a defined target_win, in
\* order: k such rows give k output rows; for k = 0 the run ends with
\* status 1 on "No closed rows with target_win" and no file is written.
C15_WinProbabilityRows ==
    [][(Filtered /\ args.model_id = "win_probability") =>
          IF WinDefined = {}
          THEN /\ pc' = "exit"
               /\ rc' = Some(1)
               /\ err' = "No closed rows with target_win after join."
               /\ out_df' = NoFrame
               /\ files' = files
               /\ DOMAIN files.data = {}
          ELSE /\ pc' = "write"
               /\ Len(out_df'.rows) = Cardinality(WinDefined)
               /\ \A j \in 1..Len(out_df'.rows) :
                     \A c \in {tenantId, opportunityId, target_win, is_closed} :
                        out_df'.rows[j][c] = merged.rows[Nth(WinDefined, j)][c]]_vars

\* C15 witness: Scenario C, five closed rows and two open rows of the seven
\* evaluation rows give five output rows
C15_Witness ==
    /\ args.model_id = "win_probability"
    /\ Projected
    /\ Len(rev.rows) = 7
    /\ Len(out_df.rows) = 5
    /\ \A j \in 1..5 : out_df.rows[j][opportunityId] = Some(1)

PlaceholderModes == {"risk_scoring", "win_probability"}

\* the projection is done: out_df is the frame handed to the writer
HasOutput == pc = "write" \/ (pc = "exit" /\ out_df # NoFrame)

\* C16: in modes risk_scoring and win_probability every output row has
\* probability 0.5, days_to_close 0, stage_encoded 0, industry_encoded 0,
\* days_since_last_activity 999, activity_count_30d 0 and stakeholder_count
\* 0, also when an input table has a column of one of these names; in mode
\* outcome_joined no placeholder feature is a column of the output.
C16_PlaceholderValues ==
    HasOutput =>
       IF args.model_id \in PlaceholderModes
       THEN \A j \in 1..Len(out_df.rows) :
               /\ out_df.rows[j][probability] = Some(Half)
               /\ out_df.rows[j][days_to_close] = Some(0)
               /\ out_df.rows[j][stage_encoded] = Some(0)
               /\ out_df.rows[j][industry_encoded] = Some(0)
               /\ out_df.rows[j][days_since_last_activity] = Some(999)
               /\ out_df.rows[j][activity_count_30d] = Some(0)
               /\ out_df.rows[j][stakeholder_count] = Some(0)
       ELSE \A k \in 1..Len(out_df.columns) :
               out_df.columns[k] \notin
                  {probability, days_to_close, stage_encoded, industry_encoded,
                   days_since_last_activity, activity_count_30d, stakeholder_count}

\* C16 witness: the evaluation table has a probability column with the value
\* 9 in its first row, and the first output row of a placeholder mode has 0.5
C16_Witness ==
    /\ Projected
    /\ args.model_id \in PlaceholderModes
    /\ args.tenant_id = None
    /\ probability \in input.rev.cols
    /\ input.rev.rows[1][probability] = Some(9)
    /\ out_df.rows[1][opportunityId] = input.rev.rows[1][opportunityId]
    /\ out_df.rows[1][probability] = Some(Half)

RiskScoringColumns ==
    <<tenantId, opportunityId, amount, probability, days_to_close, stage_encoded,
      industry_encoded, days_since_last_activity, activity_count_30d, stakeholder_count,
      target_risk, risk_score_latest>>

WinProbabilityColumns ==
    <<tenantId, opportunityId, amount, probability, days_to_close, stage_encoded,
      industry_encoded, days_since_last_activity, activity_count_30d, stakeholder_count,
      target_win, is_closed>>

\* C17: the column list of a placeholder mode's output depends on the mode
\* only: identifiers, amount, the seven placeholder features, then
\* target_risk and risk_score_latest (risk_scoring) or target_win and
\* is_closed (win_probability).
C17_ModeColumns ==
    HasOutput =>
       /\ args.model_id = "risk_scoring" => out_df.columns = RiskScoringColumns
       /\ args.model_id = "win_probability" => out_df.columns = WinProbabilityColumns

\* C17 witness: a risk_scoring output with risk_score_latest on inputs
\* without any riskScore column, amount being a column of the outcome table
C17_Witness ==
    /\ Projected
    /\ args.model_id = "risk_scoring"
    /\ riskScore \notin input.rev.cols \cup input.out.cols
    /\ amount \in input.out.cols
    /\ out_df.columns = RiskScoringColumns
    /\ Len(out_df.rows) > 0

\* the amount of a merged row, null when the column does not exist
AmountOf(row) == IF amount \in DOMAIN row THEN row[amount] ELSE NaN

\* C18: in the placeholder modes amount of an output row is the row's amount
\* when that is not null, and 0 when it is null or the column does not
\* exist; in mode risk_scoring risk_score_latest is the row's riskScore,
\* unclamped, when that is not null, and 0.5 otherwise.
C18_AmountAndLatestScore ==
    [][(Filtered /\ args.model_id \in PlaceholderModes /\ pc' = "write") =>
          LET kept == IF args.model_id = "risk_scoring" THEN RiskDefined ELSE WinDefined
          IN  \A j \in 1..Len(out_df'.rows) :
                 LET row == merged.rows[Nth(kept, j)]
                 IN  /\ out_df'.rows[j][amount] =
                           (IF AmountOf(row) # NaN THEN AmountOf(row) ELSE Some(0))
                     /\ args.model_id = "risk_scoring" =>
                           out_df'.rows[j][risk_score_latest] =
                              (IF ScoreOf(row) # NaN THEN ScoreOf(row) ELSE Some(Half))]_vars

\* C18 witness: a risk_scoring output row with the raw score 1.5 beside the
\* clamped target 1.0 and the default amount, on inputs without amount
C18_Witness ==
    /\ Projected
    /\ args.model_id = "risk_scoring"
    /\ amount \notin input.rev.cols \cup input.out.cols
    /\ \E j \in 1..Len(out_df.rows) :
          /\ out_df.rows[j][risk_score_latest] = Some(15)
          /\ out_df.rows[j][target_risk] = Some(One)
          /\ out_df.rows[j][amount] = Some(0)

\* the run has ended with status 0
Succeeded == pc = "exit" /\ rc = Some(0)

\* C19: every table written in mode risk_scoring is accepted by
\* train_risk_scoring (not empty, every REQUIRED column), and every table
\* written in mode win_probability is accepted by train_win_probability
\* (every REQUIRED column, no row removed by the trainer's own filter,
\* target_win 0 or 1), run without a tenant filter or with the pipeline's.
C19_TrainersAccept ==
    Succeeded =>
       \A p \in DOMAIN files.data :
          /\ args.model_id = "risk_scoring" =>
                /\ TrainRiskScoring(files.data[p], None) = ""
                /\ TrainRiskScoring(files.data[p], args.tenant_id) = ""
          /\ args.model_id = "win_probability" =>
                /\ TrainWinProbability(files.data[p], None) = ""
                /\ TrainWinProbability(files.data[p], args.tenant_id) = ""
                /\ TrainWinRows(files.data[p]) = files.data[p]
                /\ \A i \in 1..Len(files.data[p].rows) :
                      files.data[p].rows[i][target_win] \in {Some(0), Some(1)}

\* C19 witness: a win_probability run on evaluation rows some of which are
\* open has written a table of lost rows that the trainer takes as it is
C19_Witness ==
    /\ Succeeded
    /\ args.model_id = "win_probability"
    /\ \E p \in DOMAIN files.data :
          /\ Len(files.data[p].rows) > 0
          /\ Len(files.data[p].rows) < Len(rev.rows)
          /\ TrainWinProbability(files.data[p], None) = ""
          /\ \A i \in 1..Len(files.data[p].rows) :
                files.data[p].rows[i][target_win] = Some(0)

\* out/date=2024-05-01/data.parquet and out/data.parquet
ScenarioDPartitioned == <<Seg("out"), DateSeg("2024-05-01"), ParquetFile("data")>>
ScenarioDPlain == <<Seg("out"), ParquetFile("data")>>

\* C20 as stated: in Scenario D the writer writes the file at
\* out/date=2024-05-01/data.parquet, whether or not the directory out exists
\* when the run starts.
C20_ScenarioD_AnyFiles ==
    [][pc = "write" =>
          /\ DOMAIN files'.data = {ScenarioDPartitioned}
          /\ rc' = Some(0) => files'.data[ScenarioDPartitioned] = out_df]_vars

\* C20 amended: in Scenario D the writer writes the file at
\* out/date=2024-05-01/data.parquet provided the directory out exists when
\* the run starts; when it does not, the file is written at out/data.parquet.
C20_ScenarioD ==
    [][pc = "write" =>
          LET p == IF <<Seg("out")>> \in files.dirs
                   THEN ScenarioDPartitioned ELSE ScenarioDPlain
          IN  /\ DOMAIN files'.data = {p}
              /\ rc' = Some(0) => files'.data[p] = out_df
              /\ Dirname(p) \in files'.dirs]_vars

\* C20 witness: a run of Scenario D has ended with the projected table at
\* out/date=2024-05-01/data.parquet and nothing at out/data.parquet
C20_Witness ==
    /\ Succeeded
    /\ args.partition_date = Some("2024-05-01")
    /\ args.output_path = ScenarioDPlain
    /\ DOMAIN files.data = {ScenarioDPartitioned}
    /\ files.data[ScenarioDPartitioned] = out_df
    /\ Len(out_df.rows) > 0

\* the path without its empty segments: "a//b" and "a/b/" name what "a/b" names
Norm(q) == SelectAt(q, {i \in 1..Len(q) : q[i] # <<>>}, 1)

\* the write path C21 states for the command line and the file system
StatedPath ==
    LET given == args.output_path
    IN  IF args.partition_date = None \/ ~IsDir(files, Dirname(given)) THEN given
        ELSE IF EndsWithParquet(given)
        THEN Dirname(given) \o <<DateSeg(Val(args.partition_date)), Basename(given)>>
        ELSE given \o <<DateSeg(Val(args.partition_date)), ParquetFile("data")>>

\* C21: the writer writes at the given path when no partition label is
\* supplied or the given path's parent is not an existing directory, else at
\* <parent>/date=<label>/<filename> when the given path ends in .parquet and
\* at <path>/date=<label>/data.parquet when it does not; the parent
\* directories of that path exist when the write is made.
C21_ResolvedPath ==
    [][pc = "write" =>
          /\ Prefixes(Norm(Dirname(StatedPath))) \subseteq files'.dirs
          /\ rc' = Some(0) => Norm(wrote') = Norm(StatedPath)]_vars

\* C22: in every run, either the complete table of the selected mode is
\* written, by a run that succeeds, or the file system has no new or changed
\* output file: no failure leaves a partial output behind.
C22_AllOrNothing ==
    /\ rc = Some(1) => DOMAIN files.data = {}
    /\ \A q \in DOMAIN files.data :
          /\ Succeeded
          /\ q = wrote
          /\ files.data[q] = out_df
          /\ out_df # NoFrame

\* C23: a run that ends with status 0 has written a file of at least one
\* row, in every mode and with or without a tenant filter; a run that hits a
\* read, validation or schema failure ends with status 1.
C23_SuccessHasRows ==
    /\ Succeeded => Len(files.data[wrote].rows) >= 1
    /\ (pc = "exit" /\ (InvalidInput \/ err = "Failed to read Parquet")) => rc = Some(1)

\* both runs of the command line have ended with status 0
BothSucceeded == Succeeded /\ prior.rc = Some(0)

C25_SamePathTwice ==
    BothSucceeded =>
       /\ wrote = prior.wrote
       /\ DOMAIN files.data = {wrote}

\* the stage that follows a stage that did not fail
StageAfter(stage) ==
    IF stage = "load" THEN "validate"
    ELSE IF stage = "validate" THEN "join"
    ELSE IF stage = "join" THEN "derive"
    ELSE IF stage = "derive" THEN "filter"
    ELSE IF stage = "filter" THEN "project"
    ELSE IF stage = "project" THEN "write"
    ELSE "exit"

\* C26: every step of a run takes it from its stage to the next one in the
\* order load, validate, join, derive, filter, project, write, or ends it;
\* a stage that fails ends the run, nothing runs after the end, and the file
\* system changes in the write stage only, which is the last step.
C26_StageOrder ==
    [][/\ pc # "exit"
       /\ pc' \in {StageAfter(pc), "exit"}
       /\ rc' = Some(1) => pc' = "exit"
       /\ pc' = "exit" <=> rc' # None
       /\ files' # files => pc = "write" /\ pc' = "exit"
       /\ rc' = Some(0) => pc = "write" /\ wrote' # NoPath /\ files'.data[wrote'] = out_df]_vars

\* C26 witness: a run has gone through every stage and ended with status 0,
\* its table written
C26_Witness ==
    /\ Succeeded
    /\ args.model_id = "win_probability"
    /\ wrote # NoPath
    /\ files.data[wrote] = out_df
    /\ Len(merged.rows) > 0

\* C27: every column of the evaluation table, whatever its name, is a column
\* of the merged table, with the value of each evaluation row unchanged; the
\* merge step never fails on, and never removes, an evaluation-side column.
C27_EvaluationColumnsKept ==
    /\ ~JoinError
    /\ Joined =>
          \A c \in rev.cols :
             /\ c \in merged.cols
             /\ \A i \in 1..Len(rev.rows) : merged.rows[i][c] = rev.rows[i][c]

\* the outcome table has no tenantId column, the evaluation table no outcome
\* column of its own
TenantAgnosticOutcomes == tenantId \notin input.out.cols /\ outcome \notin input.rev.cols

\* the tenant line 97 back-fills: that of the first row of the unfiltered
\* evaluation table
FirstTenant == input.rev.rows[1][tenantId]

\* C28: when the outcome table has no tenantId column, an evaluation row is
\* closed only if its tenantId is that of the first row of the unfiltered
\* evaluation table: the rows of every other tenant have a null outcome,
\* is_closed = 0 and no target_win, whatever the outcome table holds for
\* their opportunityId and whatever --tenant-id selects, and mode
\* win_probability writes none of them.
C28_OnlyFirstTenantCloses ==
    TenantAgnosticOutcomes =>
       /\ (Derived \/ Filtered) =>
             \A i \in 1..Len(merged.rows) :
                merged.rows[i][tenantId] # FirstTenant =>
                   /\ merged.rows[i][outcome] = NaN
                   /\ merged.rows[i][is_closed] = Some(0)
                   /\ merged.rows[i][target_win] = NaN
       /\ (HasOutput /\ args.model_id = "outcome_joined") =>
             \A j \in 1..Len(out_df.rows) :
                out_df.rows[j][tenantId] # FirstTenant =>
                   /\ out_df.rows[j][outcome] = NaN
                   /\ out_df.rows[j][is_closed] = Some(0)
                   /\ out_df.rows[j][target_win] = NaN
       /\ (HasOutput /\ args.model_id = "win_probability") =>
             \A j \in 1..Len(out_df.rows) : out_df.rows[j][tenantId] = FirstTenant

\* C28 witness: --tenant-id t1 has selected the second evaluation row, the
\* first being of tenant t2; the outcome table has a won row for its
\* opportunityId, and the row is written open
C28_Witness ==
    /\ Projected
    /\ args.model_id = "outcome_joined"
    /\ args.tenant_id = Some("t1")
    /\ TenantAgnosticOutcomes
    /\ FirstTenant = Some("t2")
    /\ Len(out_df.rows) = 1
    /\ \E k \in 1..Len(input.out.rows) :
          /\ input.out.rows[k][opportunityId] = out_df.rows[1][opportunityId]
          /\ input.out.rows[k][outcome] = Some("won")
    /\ out_df.rows[1][is_closed] = Some(0)

\* a defined score in [0, 1]
InUnitInterval(c) == notna(c) /\ 0 <= Val(c) /\ Val(c) <= One

\* C29: in every merged row target_risk is undefined or in [0, 1], and it is
\* undefined exactly when riskScore is null (or the column does not exist)
\* and outcome is neither "won" nor "lost"; every row written in mode
\* risk_scoring has target_risk in [0, 1].
C29_TargetRiskRange ==
    /\ (Derived \/ Filtered) =>
          \A i \in 1..Len(merged.rows) :
             /\ merged.rows[i][target_risk] = NaN \/ InUnitInterval(merged.rows[i][target_risk])
             /\ merged.rows[i][target_risk] = NaN <=>
                   /\ ScoreOf(merged.rows[i]) = NaN
                   /\ merged.rows[i][outcome] \notin {Some("won"), Some("lost")}
    /\ (HasOutput /\ args.model_id = "risk_scoring") =>
          \A j \in 1..Len(out_df.rows) : InUnitInterval(out_df.rows[j][target_risk])

\* C29 witness: a risk_scoring output row whose score 1.5 was clamped to 1.0,
\* the run having dropped a row without score and without won or lost outcome
C29_Witness ==
    /\ Succeeded
    /\ args.model_id = "risk_scoring"
    /\ riskScore \in input.rev.cols
    /\ \E j \in 1..Len(files.data[wrote].rows) :
          /\ files.data[wrote].rows[j][risk_score_latest] = Some(15)
          /\ files.data[wrote].rows[j][target_risk] = Some(One)

\* the positions of the merged rows whose outcome is "won" or "lost"
WonOrLost ==
    {i \in 1..Len(merged.rows) : merged.rows[i][outcome] \in {Some("won"), Some("lost")}}

\* C30: in every merged row a defined target_win implies is_closed = 1, so
\* the rows mode win_probability writes are exactly the tenant-filtered rows
\* whose outcome is "won" or "lost", in order; a row with another non-null
\* outcome (closed, target_win undefined) is not written.
C30_WinRowsAreWonOrLost ==
    [][(Filtered /\ args.model_id = "win_probability") =>
          /\ \A i \in 1..Len(merged.rows) :
                notna(merged.rows[i][target_win]) => merged.rows[i][is_closed] = Some(1)
          /\ pc' = "write" <=> WonOrLost # {}
          /\ pc' = "write" =>
                /\ Len(out_df'.rows) = Cardinality(WonOrLost)
                /\ \A j \in 1..Len(out_df'.rows) :
                      /\ out_df'.rows[j][tenantId] = merged.rows[Nth(WonOrLost, j)][tenantId]
                      /\ out_df'.rows[j][opportunityId] =
                            merged.rows[Nth(WonOrLost, j)][opportunityId]
                      /\ out_df'.rows[j][target_win] =
                            (IF merged.rows[Nth(WonOrLost, j)][outcome] = Some("won")
                             THEN Some(1) ELSE Some(0))
                      /\ out_df'.rows[j][is_closed] = Some(1)]_vars

\* C30 witness: a win_probability run has written its lost row and not the
\* row whose outcome is closed without being won or lost
C30_Witness ==
    /\ Projected
    /\ args.model_id = "win_probability"
    /\ args.tenant_id = None
    /\ Len(rev.rows) = 2
    /\ Len(out_df.rows) = 1
    /\ out_df.rows[1][target_win] = Some(0)
    /\ \E k \in 1..Len(input.out.rows) : input.out.rows[k][outcome] = Some("abandoned")

====
